---- MODULE Spec2Model ----
(***************************************************************************)
(* Model of mendeleev/vis/plotly.py: the periodic-table chart assembler    *)
(* (periodic_table_plotly with create_tile / create_annotation) and the    *)
(* electronegativity scale plotter (plot_scale).                           *)
(*                                                                         *)
(* A DataFrame is a function from the names of its columns to the column   *)
(* (a sequence with one cell per row).  A cell is a record [t, n, s]:      *)
(* t is its Python type, n its number, s its string.  Floats are kept in   *)
(* fixed point, FP units to 1.0, so 7.1234 is F(71234).                    *)
(* A text is a sequence of one-character strings.                          *)
(***************************************************************************)
EXTENDS Integers, Sequences, FiniteSets, TLC

VARIABLES
    elements,        \* the caller's element table (a DataFrame)
    args,            \* the keyword arguments of the latest periodic_table_plotly call
    fig,             \* what that call gave the caller: a Figure or an exception
    colormap_calls,  \* the invocations of colormap_column that call made
    ncalls,          \* the number of calls made so far
    before,          \* the table as it was when the latest call was made
    data,            \* the columns of the table of the latest plot_scale call
    scale,           \* the scale identifier of the latest plot_scale call
    scatter          \* what that call gave the caller

vars == <<elements, args, fig, colormap_calls, ncalls, before,
         data, scale, scatter>>

(* ---------------------------- bounds ----------------------------------- *)
MaxRows == 2
MaxCalls == 2
MaxWordLen == 2

(* ---------------------------- cells ------------------------------------ *)

F(n) == [t |-> "float", n |-> n, s |-> ""]
I(n) == [t |-> "int", n |-> n, s |-> ""]
S(s) == [t |-> "str", n |-> 0, s |-> s]
NaN == [t |-> "float", n |-> 0, s |-> "nan"]

Pow10(k) == IF k = 0 THEN 1 ELSE IF k = 1 THEN 10 ELSE IF k = 2 THEN 100
            ELSE IF k = 3 THEN 1000 ELSE 10000

\* fixed point: four decimal digits
FP == Pow10(4)

isnull(v) == v.t = "float" /\ v.s = "nan"
IsNumber(v) == v.t \in {"float", "int"}

\* the value of a numeric cell in fixed point
Num(v) == IF v.t = "int" THEN v.n * FP ELSE v.n

\* x + offset, the offsets being floats (0.45, -0.3, ...) given in fixed point
AddOffset(v, off) == F(Num(v) + off)


\* numpy's round of one float: to the nearest multiple of 10^-decimals,
\* a tie to the even multiple; NaN stays NaN
round(v, decimals) ==
    IF isnull(v) THEN v
    ELSE LET unit == Pow10(4 - decimals)
             q == v.n \div unit
             r == v.n % unit
         IN  IF 2 * r < unit THEN F(q * unit)
             ELSE IF 2 * r > unit THEN F((q + 1) * unit)
             ELSE IF q % 2 = 0 THEN F(q * unit) ELSE F((q + 1) * unit)

(* ---------------------------- DataFrame -------------------------------- *)
columns(df) == DOMAIN df

nrows(df) == IF columns(df) = {} THEN 0
             ELSE Len(df[CHOOSE c \in columns(df) : TRUE])

\* df[name] = column, also df.loc[:, name] = column: the column is added,
\* or replaces the one of that name
SetColumn(df, name, column) ==
    [c \in columns(df) \cup {name} |-> IF c = name THEN column ELSE df[c]]

\* the row Series that iterrows() and apply(axis=1) hand to the builders
Row(df, i) == [c \in columns(df) |-> df[c][i]]

\* pandas' is_float_dtype of a column: the column holds floats only
is_float_dtype(column) ==
    Len(column) > 0 /\ \A i \in 1..Len(column) : column[i].t = "float"

(* ------------------- collaborator: utils.colormap_column ---------------- *)
\* the colours of the scale, from its low end to its high end
ScaleColors(cmap) ==
    IF cmap = "RdBu_r" THEN <<S("#053061"), S("#f7f7f7"), S("#67001f")>>
    ELSE <<S("#440154"), S("#21918c"), S("#fde725")>>

SeqMin(vals) == CHOOSE m \in vals : \A w \in vals : m <= w
SeqMax(vals) == CHOOSE m \in vals : \A w \in vals : m >= w

\* One hex colour per row, in row order: the missing-value colour for a row
\* whose value is missing, otherwise the colour of the scale at the value's
\* place in the column's range of values.  A column the table does not have
\* is a lookup failure.  The table is only read.  The column is a numeric
\* one: see InContract.
colormap_column(df, column, cmap, missing) ==
    IF column \notin columns(df) THEN [exc |-> "KeyError", colors |-> <<>>]
    ELSE LET col == df[column]
             vals == {Num(col[i]) : i \in {j \in 1..Len(col) : ~isnull(col[j])}}
             vmin == SeqMin(vals)
             vmax == SeqMax(vals)
             place(v) == IF vmax = vmin THEN 1
                         ELSE 1 + ((2 * (Num(v) - vmin)) \div (vmax - vmin))
         IN  [exc |-> "",
              colors |-> [i \in 1..Len(col) |->
                            IF isnull(col[i]) THEN S(missing)
                            ELSE ScaleColors(cmap)[place(col[i])]]]

(* ---------------------------- builders --------------------------------- *)
\* create_tile with the name of the colour column used as the colour
create_tile_by_name(element, color, x_offset, y_offset) ==
    [type |-> "rect",
     x0 |-> AddOffset(element["x"], -x_offset),
     y0 |-> AddOffset(element["y"], -y_offset),
     x1 |-> AddOffset(element["x"], x_offset),
     y1 |-> AddOffset(element["y"], y_offset),
     line |-> [color |-> S(color)],
     fillcolor |-> S(color),
     opacity |-> 8000]

\* create_tile: the rectangle of one element, outlined and filled with the
\* row's value in the column named by color
create_tile(element, color, x_offset, y_offset) ==
    [type |-> "rect",
     x0 |-> AddOffset(element["x"], -x_offset),
     y0 |-> AddOffset(element["y"], -y_offset),
     x1 |-> AddOffset(element["x"], x_offset),
     y1 |-> AddOffset(element["y"], y_offset),
     line |-> [color |-> element[color]],
     fillcolor |-> element[color],
     opacity |-> 8000]

\* create_annotation: the text label of one row
create_annotation(row, attr, size, x_offset, y_offset) ==
    [x |-> AddOffset(row["x"], x_offset),
     y |-> AddOffset(row["y"], y_offset),
     xref |-> "x",
     yref |-> "y",
     text |-> row[attr],
     showarrow |-> FALSE,
     font |-> [family |-> "Roboto", size |-> size, color |-> "#333333"],
     align |-> "center",
     opacity |-> 9000]

\* a builder is called on every row and reads row["x"], row["y"] and
\* row[key]; a row Series raises KeyError for a field it does not have
RowKeyError(df, key) == nrows(df) > 0 /\ ~({"x", "y", key} \subseteq columns(df))

\* [create_tile(row, color=colorby) for _, row in elements.iterrows()]
Tiles(df, colorby) ==
    [i \in 1..nrows(df) |-> create_tile(Row(df, i), colorby, 4500, 4500)]

\* tuple(elements.apply(create_annotation, axis=1, args=(attr,), ...))
ApplyAnnotation(df, attr, size, y_offset) ==
    [i \in 1..nrows(df) |-> create_annotation(Row(df, i), attr, size, 0, y_offset)]

(* ---------------------------- the assembler ---------------------------- *)
range(a, b) == [i \in 1..(b - a) |-> a + i - 1]

NoneValue == [isset |-> FALSE, vals |-> <<>>]
TupleValue(seq) == [isset |-> TRUE, vals |-> seq]

\* the coordinate check with all() for any(): only a table lacking both fails
MissingCoordinates_both(df) == \A col \in {"x", "y"} : col \notin columns(df)

\* the coordinate check extended to the symbol column
MissingCoordinates_labels(df) ==
    \E col \in {"x", "y", "symbol"} : col \notin columns(df)

\* the coordinate check of the first statement
MissingCoordinates(df) == \E col \in {"x", "y"} : col \notin columns(df)

\* the column the tiles are coloured by
ActiveColor(colorby) == IF colorby = "attribute" THEN "attribute_color" ELSE colorby

\* the colours stored in the column "color" as well
StoreColors_both(df, colored) ==
    SetColumn(SetColumn(df, "attribute_color", colored), "color", colored)

\* elements.loc[:, "attribute_color"] = colored
StoreColors(df, colored) == SetColumn(df, "attribute_color", colored)

\* the display column without the rounding
DisplayColumn_unrounded(column, decimals) == column

\* the derived display column
DisplayColumn(column, decimals) ==
    IF is_float_dtype(column)
    THEN [i \in 1..Len(column) |-> round(column[i], decimals)]
    ELSE column

\* the rounding done in place, on the attribute column too
StoreDisplay_inplace(df, attribute, decimals) ==
    SetColumn(SetColumn(df, attribute, DisplayColumn(df[attribute], decimals)),
              "display_attribute", DisplayColumn(df[attribute], decimals))

\* elements[ac] = ..., ac being "display_attribute"
StoreDisplay(df, attribute, decimals) ==
    SetColumn(df, "display_attribute", DisplayColumn(df[attribute], decimals))

\* range(1, 18) for range(1, 19)
xtickvals_short(wide_layout) ==
    IF wide_layout THEN NoneValue ELSE TupleValue(range(1, 18))

\* the x range of the narrow layout in both variants
xrange_narrow(wide_layout) == <<5000, 185000>>

xtickvals(wide_layout) == IF wide_layout THEN NoneValue ELSE TupleValue(range(1, 19))
ytickvals(wide_layout) == TupleValue(range(1, 8))
xrange(wide_layout) == IF wide_layout THEN <<5000, 325000>> ELSE <<5000, 185000>>
yrange(wide_layout) == IF wide_layout THEN <<75000, 5000>> ELSE <<100000, 5000>>

\* fig.update_layout(...)
Layout(a) ==
    [template |-> "plotly_white",
     height |-> a.height,
     width |-> a.width,
     title |-> a.title,
     xaxis |-> [range |-> xrange(a.wide_layout),
                showgrid |-> FALSE,
                fixedrange |-> TRUE,
                side |-> "top",
                tickvals |-> xtickvals(a.wide_layout)],
     yaxis |-> [range |-> yrange(a.wide_layout),
                showgrid |-> FALSE,
                fixedrange |-> TRUE,
                tickvals |-> ytickvals(a.wide_layout),
                title |-> "Period"]]

EmptyLayout == [template |-> "", height |-> 0, width |-> 0, title |-> "",
                xaxis |-> [range |-> <<>>, showgrid |-> TRUE, fixedrange |-> FALSE,
                           side |-> "", tickvals |-> NoneValue],
                yaxis |-> [range |-> <<>>, showgrid |-> TRUE, fixedrange |-> FALSE,
                           tickvals |-> NoneValue, title |-> ""]]

\* what the caller has after a call: a Figure, or the exception raised
Figure(shapes, annotations, layout) ==
    [kind |-> "Figure", shapes |-> shapes, annotations |-> annotations,
     layout |-> layout]
Raise(exc) ==
    [kind |-> exc, shapes |-> <<>>, annotations |-> <<>>, layout |-> EmptyLayout]
NoFigure == Raise("None")

\* the three overlay passes that precede the display column, in order
Overlays == <<[attr |-> "symbol", size |-> 16, y_offset |-> 0],
              [attr |-> "atomic_number", size |-> 10, y_offset |-> -3000],
              [attr |-> "name", size |-> 7, y_offset |-> 2000]>>

\* the passes of the name and of the atomic number in each other's place
OverlayAnnotations_swapped(df) ==
    ApplyAnnotation(df, Overlays[1].attr, Overlays[1].size, Overlays[1].y_offset)
    \o ApplyAnnotation(df, Overlays[3].attr, Overlays[3].size, Overlays[3].y_offset)
    \o ApplyAnnotation(df, Overlays[2].attr, Overlays[2].size, Overlays[2].y_offset)

\* the annotations of the three passes, pass after pass
OverlayAnnotations(df) ==
    ApplyAnnotation(df, Overlays[1].attr, Overlays[1].size, Overlays[1].y_offset)
    \o ApplyAnnotation(df, Overlays[2].attr, Overlays[2].size, Overlays[2].y_offset)
    \o ApplyAnnotation(df, Overlays[3].attr, Overlays[3].size, Overlays[3].y_offset)

\* periodic_table_plotly(elements, **a): the table it leaves, what the caller
\* gets, and the invocations of colormap_column it made
periodic_table_plotly(df, a) ==
    IF MissingCoordinates(df)
    THEN [elements |-> df, fig |-> Raise("ValueError"), calls |-> <<>>]
    ELSE
    LET bycolor == a.colorby = "attribute"
        colored == colormap_column(df, a.attribute, a.cmap, a.missing)
        calls == IF bycolor
                 THEN <<[df |-> df, column |-> a.attribute,
                         cmap |-> a.cmap, missing |-> a.missing]>>
                 ELSE <<>>
    IN
    IF bycolor /\ colored.exc # ""
    THEN [elements |-> df, fig |-> Raise(colored.exc), calls |-> calls]
    ELSE
    LET e1 == IF bycolor THEN StoreColors(df, colored.colors) ELSE df
        colorby == ActiveColor(a.colorby)
    IN
    IF RowKeyError(e1, colorby)
       \/ \E k \in 1..Len(Overlays) : RowKeyError(e1, Overlays[k].attr)
       \/ a.attribute \notin columns(e1)
    THEN [elements |-> e1, fig |-> Raise("KeyError"), calls |-> calls]
    ELSE
    LET ac == "display_attribute"
        e2 == StoreDisplay(e1, a.attribute, a.decimals)
    IN  [elements |-> e2,
         fig |-> Figure(Tiles(e1, colorby),
                        OverlayAnnotations(e1) \o ApplyAnnotation(e2, ac, 7, 3500),
                        Layout(a)),
         calls |-> calls]

(* ---------------------------- texts ------------------------------------ *)
Letters == {"a", "e", "n", "p"}

\* str.upper and str.lower of one character, for the letters that occur
upper(c) == IF c = "a" THEN "A" ELSE IF c = "e" THEN "E" ELSE IF c = "n" THEN "N"
            ELSE IF c = "p" THEN "P" ELSE c
lower(c) == IF c = "A" THEN "a" ELSE IF c = "E" THEN "e" ELSE IF c = "N" THEN "n"
            ELSE IF c = "P" THEN "p" ELSE c

\* str.capitalize: the first character in upper case, the others in lower case
capitalize(w) ==
    [i \in 1..Len(w) |-> IF i = 1 THEN upper(w[i]) ELSE lower(w[i])]

RECURSIVE lstrip(_, _)
lstrip(s, chars) ==
    IF s # <<>> /\ Head(s) \in chars THEN lstrip(Tail(s), chars) ELSE s

RECURSIVE rstrip(_, _)
rstrip(s, chars) ==
    IF s # <<>> /\ s[Len(s)] \in chars
    THEN rstrip(SubSeq(s, 1, Len(s) - 1), chars) ELSE s

\* str.strip(chars): every leading and every trailing character that is one
\* of chars is removed
strip(s, chars) == rstrip(lstrip(s, chars), chars)

\* str.split(sep) for a one-character separator
RECURSIVE split(_, _)
split(s, sep) ==
    IF \A i \in 1..Len(s) : s[i] # sep THEN <<s>>
    ELSE LET k == CHOOSE i \in 1..Len(s) :
                      s[i] = sep /\ \A j \in 1..(i - 1) : s[j] # sep
         IN  <<SubSeq(s, 1, k - 1)>> \o split(SubSeq(s, k + 1, Len(s)), sep)

\* sep.join(words)
RECURSIVE join(_, _)
join(sep, words) ==
    IF words = <<>> THEN <<>>
    ELSE IF Len(words) = 1 THEN words[1]
    ELSE words[1] \o sep \o join(sep, Tail(words))

\* map(str.capitalize, words)
CapitalizeAll(words) == [i \in 1..Len(words) |-> capitalize(words[i])]

(* ---------------------------- the scale plotter ------------------------ *)
En == <<"e", "n", "_">>
SymbolColumn == <<"s", "y", "m", "b", "o", "l">>
ElectronegativitySuffix ==
    <<"'", "s", " ", "E", "l", "e", "c", "t", "r", "o", "n", "e", "g", "a", "t",
      "i", "v", "i", "t", "y">>
AtomicNumberTitle ==
    <<"A", "t", "o", "m", "i", "c", " ", "N", "u", "m", "b", "e", "r">>

\* "-".join(map(str.capitalize, scale.strip("en_").split("_")))
scale_name(s) ==
    join(<<"-">>, CapitalizeAll(split(strip(s, {"e", "n", "_"}), "_")))

\* plotly.express.scatter: one point per row of the table, y bound to the
\* column y and labelled with the column text; a column the table does not
\* have makes the call fail
px_scatter(df, y, text, title) ==
    IF y \notin df \/ text \notin df
    THEN [kind |-> "ValueError", y |-> <<>>, text |-> <<>>, title |-> <<>>,
          xaxis_title |-> <<>>, yaxis_title |-> <<>>]
    ELSE [kind |-> "Figure", y |-> y, text |-> text, title |-> title,
          xaxis_title |-> <<>>, yaxis_title |-> <<>>]

NoScatter == [kind |-> "None", y |-> <<>>, text |-> <<>>, title |-> <<>>,
              xaxis_title |-> <<>>, yaxis_title |-> <<>>]

\* plot_scale(data, scale)
plot_scale(df, s) ==
    LET f == px_scatter(df, s, SymbolColumn, scale_name(s) \o ElectronegativitySuffix)
    IN  IF f.kind # "Figure" THEN f
        ELSE [f EXCEPT !.xaxis_title = AtomicNumberTitle,
                       !.yaxis_title = scale_name(s)]

(* ---------------------------- inputs ----------------------------------- *)
Cyc(pat, i) == pat[((i - 1) % Len(pat)) + 1]
Col(pat, n) == [i \in 1..n |-> Cyc(pat, i)]

\* the columns of a table made by create_vis_dataframe, and an attribute
BaseColumns == {"x", "y", "symbol", "atomic_number", "name", "color", "atomic_weight"}

BasePattern(c) ==
    IF c = "x" THEN <<I(1), I(2), I(18), I(3)>>
    ELSE IF c = "y" THEN <<I(1), I(1), I(1), I(2)>>
    ELSE IF c = "symbol" THEN <<S("H"), S("He"), S("Li"), S("Be")>>
    ELSE IF c = "atomic_number" THEN <<I(1), I(2), I(3), I(4)>>
    ELSE IF c = "name" THEN <<S("Hydrogen"), S("Helium"), S("Lithium"), S("Beryllium")>>
    ELSE <<S("#ff0000"), S("#00ff00"), S("#0000ff"), S("#ffff00")>>

\* the attribute column: floats, floats with a missing value, texts, and a
\* column of mixed cells (dtype object)
AttributePatterns ==
    { <<F(71234), F(71251), F(12500)>>,
      <<NaN, F(1500), F(71234)>>,
      <<S("s-block"), S("p-block")>>,
      <<F(71234), S("s-block")>> }

\* columns named like the derived ones that the table may already have
DerivedColumns == {"display_attribute", "attribute_color"}

DerivedPatterns ==
    { <<F(99999), F(12345)>>,
      <<F(31416), F(31424)>>,
      <<S("#111111"), S("#222222")>> }

Presets ==
    UNION {[cols -> DerivedPatterns] : cols \in SUBSET DerivedColumns}

MakeTable(n, drop, awp, pre) ==
    [c \in (BaseColumns \ drop) \cup DOMAIN pre |->
        IF c \in DOMAIN pre THEN Col(pre[c], n)
        ELSE IF c = "atomic_weight" THEN Col(awp, n)
        ELSE Col(BasePattern(c), n)]

\* the columns a table lacks: none, any one, or any two
Drops == {{}} \cup {{c, d} : c \in BaseColumns, d \in BaseColumns}

\* The tables of the calls.  A table without rows has the three label
\* columns: what DataFrame.apply does with a function that fails on a table
\* without rows is pandas' business and is not modelled.
Tables ==
    { MakeTable(n, drop, awp, pre) :
        n \in 1..MaxRows,
        drop \in Drops,
        awp \in AttributePatterns,
        pre \in Presets }
    \cup
    { MakeTable(0, drop, awp, pre) :
        drop \in {d \in Drops : d \cap {"symbol", "atomic_number", "name"} = {}},
        awp \in AttributePatterns,
        pre \in Presets }

Args ==
    [attribute : {"atomic_weight", "atomic_number", "display_attribute", "attribute_color"},
     cmap : {"RdBu_r"},
     colorby : {"color", "attribute", "display_attribute", "attribute_color"},
     decimals : {0, 2},
     height : {800},
     missing : {"#ffffff"},
     title : {"Periodic Table"},
     wide_layout : BOOLEAN,
     width : {1200}]

NoArgs == [attribute |-> "", cmap |-> "", colorby |-> "", decimals |-> 0,
           height |-> 0, missing |-> "", title |-> "", wide_layout |-> FALSE,
           width |-> 0]

Words == UNION {[1..k -> Letters] : k \in 1..MaxWordLen}
EnPauling == <<"e", "n", "_", "p", "a", "u", "l", "i", "n", "g">>
EnAllen == <<"e", "n", "_", "a", "l", "l", "e", "n">>

\* "en_" and one or two words, and two scales of the package by name
Scales ==
    {En \o w : w \in Words}
    \cup {En \o w1 \o <<"_">> \o w2 : w1 \in Words, w2 \in Words}
    \cup {EnPauling, EnAllen}

\* the electronegativity tables for a scale: with the scale's column and
\* the symbols, without the symbols, without the scale's column
DataTables(s) == {{s, SymbolColumn}, {s}, {SymbolColumn}}

(* ---------------------------- the state machine ------------------------ *)
Init ==
    /\ elements \in Tables
    /\ args = NoArgs
    /\ fig = NoFigure
    /\ colormap_calls = <<>>
    /\ ncalls = 0
    /\ before = elements
    /\ data = {}
    /\ scale = <<>>
    /\ scatter = NoScatter

\* colormap_column is specified for a numeric column: a call that would hand
\* it a column with a cell that is no number is not modelled
InContract(df, a) ==
    (/\ ~MissingCoordinates(df)
     /\ a.colorby = "attribute"
     /\ a.attribute \in columns(df))
        => \A i \in 1..nrows(df) : IsNumber(df[a.attribute][i])

\* a call periodic_table_plotly(elements, **a) by the owner of the table
PeriodicTablePlotly(a) ==
    /\ ncalls < MaxCalls
    /\ InContract(elements, a)
    /\ LET out == periodic_table_plotly(elements, a)
       IN  /\ elements' = out.elements
           /\ fig' = out.fig
           /\ colormap_calls' = out.calls
    /\ args' = a
    /\ ncalls' = ncalls + 1
    /\ before' = elements
    /\ UNCHANGED <<data, scale, scatter>>

\* the owner's first call, with any arguments
FirstCall == ncalls = 0 /\ \E a \in Args : PeriodicTablePlotly(a)

\* the owner makes the same call again, on the table the calls so far left
RepeatCall == ncalls > 0 /\ PeriodicTablePlotly(args)

Next == FirstCall \/ RepeatCall

Spec == Init /\ [][Next]_vars

InitScale ==
    /\ elements = MakeTable(0, {}, <<NaN>>, <<>>)
    /\ args = NoArgs
    /\ fig = NoFigure
    /\ colormap_calls = <<>>
    /\ ncalls = 0
    /\ before = elements
    /\ data = {}
    /\ scale = <<>>
    /\ scatter = NoScatter

\* a call plot_scale(df, s)
PlotScale(df, s) ==
    /\ ncalls = 0
    /\ ncalls' = 1
    /\ data' = df
    /\ scale' = s
    /\ scatter' = plot_scale(df, s)
    /\ UNCHANGED <<elements, args, fig, colormap_calls, before>>

NextScale == \E s \in Scales : \E df \in DataTables(s) : PlotScale(df, s)

SpecScale == InitScale /\ [][NextScale]_vars

(* ======================= properties of the assembler =================== *)
Called == ncalls > 0
Returned == Called /\ fig.kind = "Figure"
HasCoordinates == {"x", "y"} \subseteq DOMAIN before

\* the cell of row i in a column of the table as the call found it
Cell(c, i) == before[c][i]

\* C1: a call on a table that lacks "x" or "y" raises ValueError, returns no
\* chart, leaves the table as it was and does not invoke colormap_column.
C1_MissingCoordinates ==
    (Called /\ ~HasCoordinates) =>
        /\ fig.kind = "ValueError"
        /\ fig.shapes = <<>> /\ fig.annotations = <<>>
        /\ elements = before
        /\ colormap_calls = <<>>

C1_Witness ==
    /\ Called /\ nrows(before) > 0
    /\ "x" \notin DOMAIN before /\ "y" \in DOMAIN before
    /\ args.colorby = "attribute" /\ args.attribute \in DOMAIN before
    /\ fig.kind = "ValueError"

\* C2: for a table of N rows with all the columns read, the chart has N tiles
\* in row order and 4*N annotations: four passes of N (symbol, atomic number,
\* name, display value), annotation (k-1)*N+i being that of row i in pass k.
C2_TilesAndAnnotations ==
    (Returned /\ {"x", "y", "symbol", "atomic_number", "name", args.attribute}
                    \subseteq DOMAIN before) =>
        LET n == nrows(before)
            at(k, i) == fig.annotations[(k - 1) * n + i]
        IN  /\ Len(fig.shapes) = n
            /\ Len(fig.annotations) = 4 * n
            /\ \A i \in 1..n :
                /\ fig.shapes[i].x0.n = Num(Cell("x", i)) - 4500
                /\ fig.shapes[i].x1.n = Num(Cell("x", i)) + 4500
                /\ fig.shapes[i].y0.n = Num(Cell("y", i)) - 4500
                /\ fig.shapes[i].y1.n = Num(Cell("y", i)) + 4500
                /\ \A k \in 1..4 : at(k, i).x.n = Num(Cell("x", i))
                /\ at(1, i).text = Cell("symbol", i)
                /\ at(1, i).y.n = Num(Cell("y", i)) /\ at(1, i).font.size = 16
                /\ at(2, i).text = Cell("atomic_number", i)
                /\ at(2, i).y.n = Num(Cell("y", i)) - 3000 /\ at(2, i).font.size = 10
                /\ at(3, i).text = Cell("name", i)
                /\ at(3, i).y.n = Num(Cell("y", i)) + 2000 /\ at(3, i).font.size = 7
                /\ at(4, i).text = elements["display_attribute"][i]
                /\ at(4, i).y.n = Num(Cell("y", i)) + 3500 /\ at(4, i).font.size = 7

C2_Witness ==
    /\ Returned /\ nrows(before) = MaxRows
    /\ Len(fig.shapes) = MaxRows /\ Len(fig.annotations) = 4 * MaxRows
    /\ fig.annotations[MaxRows + 1].text = I(1)

\* C3 (as amended): with wide_layout=True the x-axis tick values are unset,
\* the y-axis tick values are 1..7, the x-axis range is [0.5, 32.5] and the
\* y-axis range is [7.5, 0.5].
C3_WideLayout ==
    (Returned /\ args.wide_layout) =>
        /\ ~fig.layout.xaxis.tickvals.isset
        /\ fig.layout.yaxis.tickvals = [isset |-> TRUE, vals |-> <<1, 2, 3, 4, 5, 6, 7>>]
        /\ fig.layout.xaxis.range = <<5000, 325000>>
        /\ fig.layout.yaxis.range = <<75000, 5000>>

\* C3 as stated: with wide_layout=True the tick values are unset on the
\* x-axis and on the y-axis, and the ranges are [0.5, 32.5] and [7.5, 0.5].
C3_Original ==
    (Returned /\ args.wide_layout) =>
        /\ ~fig.layout.xaxis.tickvals.isset
        /\ ~fig.layout.yaxis.tickvals.isset
        /\ fig.layout.xaxis.range = <<5000, 325000>>
        /\ fig.layout.yaxis.range = <<75000, 5000>>

C3_Witness ==
    /\ Returned /\ args.wide_layout /\ nrows(before) > 0
    /\ fig.layout.yaxis.tickvals.isset

\* C4: with wide_layout=False the x-axis tick values are 1..18, the y-axis
\* tick values 1..7, the ranges [0.5, 18.5] and [10.0, 0.5]; in both variants
\* the axes are fixed-range without gridlines, the x-axis is on top and the
\* y-axis is titled "Period".
C4_NarrowLayout ==
    Returned =>
        /\ ~args.wide_layout =>
            /\ fig.layout.xaxis.tickvals =
                 [isset |-> TRUE, vals |-> [i \in 1..18 |-> i]]
            /\ fig.layout.yaxis.tickvals =
                 [isset |-> TRUE, vals |-> [i \in 1..7 |-> i]]
            /\ fig.layout.xaxis.range = <<5000, 185000>>
            /\ fig.layout.yaxis.range = <<100000, 5000>>
        /\ fig.layout.xaxis.fixedrange /\ fig.layout.yaxis.fixedrange
        /\ ~fig.layout.xaxis.showgrid /\ ~fig.layout.yaxis.showgrid
        /\ fig.layout.xaxis.side = "top"
        /\ fig.layout.yaxis.title = "Period"

C4_Witness ==
    /\ Returned /\ ~args.wide_layout /\ nrows(before) > 0
    /\ Len(fig.layout.xaxis.tickvals.vals) = 18

\* the attribute column as it stands when the display column is derived
AttributeColumn ==
    IF args.colorby = "attribute" /\ args.attribute = "attribute_color"
    THEN elements["attribute_color"]
    ELSE before[args.attribute]

AllFloats(column) == \A j \in 1..Len(column) : column[j].t = "float"

\* C6 (as amended): after a successful call the display value of every row,
\* which is also the text of its fourth-pass annotation, is the row's cell of
\* the attribute column (as it stands once attribute_color is stored) rounded
\* to decimals places when every cell of that column is a float, and that
\* cell unchanged otherwise (7.1234 gives 7.12 with decimals=2).
C6_DisplayValue ==
    Returned =>
        LET n == nrows(before)
            col == AttributeColumn
        IN  \A i \in 1..n :
              /\ elements["display_attribute"][i] =
                    (IF AllFloats(col) THEN round(col[i], args.decimals) ELSE col[i])
              /\ (AllFloats(col) /\ col[i] = F(71234) /\ args.decimals = 2)
                    => elements["display_attribute"][i] = F(71200)
              /\ fig.annotations[3 * n + i].text = elements["display_attribute"][i]

\* C6 as stated: the display value is the row's attribute value rounded when
\* that value is numeric, and the value unchanged when it is not.
C6_Original ==
    Returned =>
        \A i \in 1..nrows(before) :
            LET v == Cell(args.attribute, i)
                shown == elements["display_attribute"][i]
            IN  /\ shown = (IF v.t = "float" THEN round(v, args.decimals) ELSE v)
                /\ fig.annotations[3 * nrows(before) + i].text = shown

C6_Witness ==
    /\ Returned /\ args.decimals = 2 /\ args.attribute = "atomic_weight"
    /\ \E i \in 1..nrows(before) :
          /\ Cell("atomic_weight", i) = F(71234)
          /\ elements["display_attribute"][i] = F(71200)

\* C7: with colorby="attribute" colormap_column is invoked once, with
\* (table, attribute, cmap, missing), its colours become the column
\* attribute_color and tile i is filled and outlined with the i-th of them;
\* with any other colorby it is not invoked and tile i is filled and outlined
\* with row i's value in that column.
C7_TileColors ==
    Returned =>
        IF args.colorby = "attribute"
        THEN LET colored == colormap_column(before, args.attribute, args.cmap,
                                            args.missing).colors
             IN  /\ colormap_calls = <<[df |-> before, column |-> args.attribute,
                                        cmap |-> args.cmap, missing |-> args.missing]>>
                 /\ elements["attribute_color"] = colored
                 /\ \A i \in 1..nrows(before) :
                        /\ fig.shapes[i].fillcolor = colored[i]
                        /\ fig.shapes[i].line.color = colored[i]
        ELSE /\ colormap_calls = <<>>
             /\ \A i \in 1..nrows(before) :
                    /\ fig.shapes[i].fillcolor = Cell(args.colorby, i)
                    /\ fig.shapes[i].line.color = Cell(args.colorby, i)

C7_Witness ==
    /\ Returned /\ args.colorby = "attribute" /\ nrows(before) = MaxRows
    /\ Len(colormap_calls) = 1
    /\ "attribute_color" \notin DOMAIN before
    /\ fig.shapes[1].fillcolor # fig.shapes[2].fillcolor

\* the columns a successful call writes
Written ==
    {"display_attribute"}
    \cup (IF args.colorby = "attribute" THEN {"attribute_color"} ELSE {})

\* C8 (as amended): a successful call leaves the rows and every column of
\* the table as they were, except display_attribute and, with
\* colorby="attribute", attribute_color, which it adds or overwrites.
C8_Frame ==
    Returned =>
        /\ DOMAIN elements = DOMAIN before \cup Written
        /\ nrows(elements) = nrows(before)
        /\ \A c \in DOMAIN before \ Written : elements[c] = before[c]

\* C8 as stated: every column the table had before a successful call has the
\* same values after it, and the rows are the same.
C8_Original ==
    Returned =>
        /\ DOMAIN before \subseteq DOMAIN elements
        /\ nrows(elements) = nrows(before)
        /\ \A c \in DOMAIN before : elements[c] = before[c]

C8_Witness ==
    /\ Returned /\ nrows(before) > 0
    /\ "display_attribute" \in DOMAIN before
    /\ elements["display_attribute"] # before["display_attribute"]
    /\ args.attribute = "atomic_weight" /\ "atomic_weight" \in DOMAIN before
    /\ elements["atomic_weight"] = before["atomic_weight"]

\* the table has coordinates and a row but not every column the call reads
LacksReadColumn ==
    /\ HasCoordinates /\ nrows(before) >= 1
    /\ \/ ~({"symbol", "atomic_number", "name", args.attribute} \subseteq DOMAIN before)
       \/ args.colorby # "attribute" /\ args.colorby \notin DOMAIN before

\* C9 (as amended): such a call fails with KeyError, not ValueError, and no
\* chart, tile or annotation reaches the caller; the table is as it was,
\* except that with colorby="attribute" the column attribute_color has
\* already been stored when the failure comes after the colour mapping.
C9_LookupFailure ==
    (Called /\ LacksReadColumn) =>
        /\ fig.kind = "KeyError"
        /\ fig.shapes = <<>> /\ fig.annotations = <<>>
        /\ \/ elements = before
           \/ /\ args.colorby = "attribute"
              /\ args.attribute \in DOMAIN before
              /\ DOMAIN elements = DOMAIN before \cup {"attribute_color"}
              /\ \A c \in DOMAIN before \ {"attribute_color"} : elements[c] = before[c]

\* C9 as stated: such a call fails with KeyError, returns nothing, and
\* nothing it built is observable by the caller.
C9_Original ==
    (Called /\ LacksReadColumn) =>
        /\ fig.kind = "KeyError"
        /\ fig.shapes = <<>> /\ fig.annotations = <<>>
        /\ elements = before

C9_Witness ==
    /\ Called /\ LacksReadColumn /\ fig.kind = "KeyError"
    /\ "symbol" \notin DOMAIN before
    /\ "attribute_color" \in DOMAIN elements \ DOMAIN before

\* the arguments for which a call does not read a column it derives itself
ReadsNoDerivedColumn(a) ==
    /\ a.colorby # "display_attribute"
    /\ a.colorby = "attribute" =>
          a.attribute \notin {"attribute_color", "display_attribute"}

\* C10 (as amended): when a call has succeeded and its arguments make it read
\* no column that it derives (colorby is not "display_attribute" and, with
\* colorby="attribute", attribute is neither derived column), the same call
\* made again succeeds, returns an equal chart and leaves the table as the
\* first call left it.
C10_Idempotent ==
    [][(Returned /\ ncalls' = ncalls + 1 /\ args' = args /\ ReadsNoDerivedColumn(args))
        => (fig' = fig /\ elements' = elements)]_vars

\* C10 as stated: whenever a call has succeeded, the same call made again
\* succeeds, returns an equal chart and leaves the table as it was left.
C10_Original ==
    [][(Returned /\ ncalls' = ncalls + 1 /\ args' = args)
        => (fig' = fig /\ elements' = elements)]_vars

C10_Witness ==
    /\ Returned /\ ncalls >= 2 /\ nrows(before) = MaxRows
    /\ args.colorby = "attribute"
    /\ {"attribute_color", "display_attribute"} \subseteq DOMAIN before
    /\ elements = before

(* ======================= properties of the scale plotter =============== *)
\* the identifier without its prefix "en_"
RemovePrefix(s) == IF SubSeq(s, 1, 3) = En THEN SubSeq(s, 4, Len(s)) ELSE s

\* the words of the identifier after the prefix, each capitalized
DisplayName(s) == join(<<"-">>, CapitalizeAll(split(RemovePrefix(s), "_")))

C5_Witness ==
    /\ scatter.kind = "Figure" /\ scale = EnPauling
    /\ scatter.yaxis_title = <<"P", "a", "u", "l", "i", "n", "g">>

\* C5: for a scale "en_" + words, plot_scale strips only the prefix,
\* capitalizes each word, titles the chart "<Display Name>'s
\* Electronegativity" and the y-axis with the display name; "en_pauling"
\* gives "Pauling's Electronegativity".
C5_ScaleTitle ==
    scatter.kind = "Figure" =>
        /\ scatter.title = DisplayName(scale) \o ElectronegativitySuffix
        /\ scatter.yaxis_title = DisplayName(scale)
        /\ scale = EnPauling =>
              scatter.title = <<"P", "a", "u", "l", "i", "n", "g">>
                              \o ElectronegativitySuffix

====
